---- MODULE Spec2Model ----
(***************************************************************************)
(* Model of the teaser generator: the remote fetcher                       *)
(* (src/src/video_processor.py download_youtube_video and                  *)
(* download_youtube_video_fallback), the URL validation of                 *)
(* src/src/utils.py, the segment extractor and the per-frame overlay       *)
(* compositor of src/src/video_processor.py, and the step machine of       *)
(* src/main.py that drives them.                                           *)
(***************************************************************************)
EXTENDS Integers, Sequences, FiniteSets, TLC

VARIABLES
    scratchDir,     \* TRUE iff <tempdir>/teaser_generator exists
    files,          \* the filesystem: path -> content (NoFile when absent)
    dl_pc,          \* position of download_youtube_video: idle/primary/fallback/done
    youtube_url,    \* argument of the running download_youtube_video call
    attempt,        \* loop variable `attempt` of the loop dl_pc names
    events,         \* external effects of the running call, in program order
    dl_result,      \* how the call ended: none / return(path) / raise(reason)
    m_op,           \* the media operation called (name and arguments), or NoCall
    m_ret,          \* what that operation returned
    m_events,       \* external effects of that operation, in program order
    session_state,  \* st.session_state: key -> value
    pv_pc,          \* position of process_video: idle/download/analyze/teaser/caption
    highlights,     \* local variable `highlights` of process_video
    st_error,       \* the st.error text shown by the last handler run ("" if none)
    pv_log          \* what the current run of process_video has done, in program order

dlVars == <<scratchDir, files, dl_pc, youtube_url, attempt, events, dl_result>>
mediaVars == <<m_op, m_ret, m_events>>
uiVars == <<session_state, pv_pc, highlights, st_error, pv_log>>

NoFile == [kind |-> "absent"]

----------------------------------------------------------------------------
(* Error messages.  A message is the set of text fragments it contains;    *)
(* substring tests of the code (`"x" in error_msg`) are fragment           *)
(* membership, and str.lower() maps every fragment to its lower-case       *)
(* spelling.                                                               *)

MaxMsgLen == 2

Fragments ==
    {"WinError 32", "Permission denied", "permission denied",
     "Age Restricted", "unavailable", "Sign in", "timed out"}

LowerFragment(t) ==
    CASE t = "WinError 32"       -> "winerror 32"
      [] t = "Permission denied" -> "permission denied"
      [] t = "Age Restricted"    -> "age restricted"
      [] t = "Sign in"           -> "sign in"
      [] OTHER                   -> t

Lower(msg) == {LowerFragment(t) : t \in msg}

Contains(msg, needle) == needle \in msg

Messages == {m \in SUBSET Fragments : Cardinality(m) \in 1..MaxMsgLen}

----------------------------------------------------------------------------
(* URLs.  A URL is scheme ++ [www.] ++ host ++ tld ++ "/" ++ route ++ id,   *)
(* where idLen counts the leading characters of id outside [&=%?].         *)

IdLength == 11

MkURL(scheme, www, host, tld, route, idLen) ==
    [scheme |-> scheme, www |-> www, host |-> host, tld |-> tld,
     route |-> route, idLen |-> idLen]

URLs ==
    { MkURL("https://", TRUE,  "youtube",          ".com", "watch?v=", 11),
      MkURL("",         FALSE, "youtu",            ".be",  "",         11),
      MkURL("https://", FALSE, "youtube-nocookie", ".com", "embed/",   11),
      MkURL("https://", FALSE, "youtube",          ".be",  "",         11),
      MkURL("https://", FALSE, "vimeo",            ".com", "",         11),
      MkURL("https://", FALSE, "",                 ".com", "watch?v=", 11),
      MkURL("https://", TRUE,  "youtube",          ".com", "watch?v=", 5),
      MkURL("ftp://",   FALSE, "youtube",          ".com", "",         11) }

NoURL == MkURL("", FALSE, "", "", "", 0)

\* Leading characters of a route outside [&=%?], and whether that is all of it.
CleanPrefixLen(route) ==
    CASE route = "watch?v=" -> 5
      [] route = "embed/"   -> 6
      [] route = "v/"       -> 2
      [] OTHER              -> 0

RouteIsClean(route) == route \in {"", "embed/", "v/"}

\* re.match(youtube_regex, url): anchored at the start, not at the end.
validate_youtube_url(url) ==
    /\ url.scheme \in {"", "http://", "https://"}
    /\ url.host \in {"youtube", "youtu", "youtube-nocookie"}
    /\ url.tld \in {".com", ".be"}
    /\ \/ /\ url.route \in {"watch?v=", "embed/", "v/"}
          /\ url.idLen >= IdLength
       \/ CleanPrefixLen(url.route)
            + (IF RouteIsClean(url.route) THEN url.idLen ELSE 0) >= IdLength

----------------------------------------------------------------------------
(* Remote fetcher.                                                         *)

\* Variant: the primary loop runs once more than its bound
PrimaryMaxAttemptsOffByOne == 10 + 1

PrimaryMaxAttempts == 10
FallbackMaxAttempts == 5
base_delay == 5

\* What a download attempt met, as the caller of the download client sees it:
\* "ok", a file-lock text in the spelling the clients use ("lock"), a file-lock
\* text in another spelling only ("lock_other_case"), or anything else.
Observe(e) ==
    IF Contains(e, "WinError 32") \/ Contains(e, "Permission denied") THEN "lock"
    ELSE IF Contains(e, "winerror 32") \/ Contains(e, "permission denied")
         THEN "lock_other_case"
         ELSE "other"

AttemptEv(loop, n, outcome) ==
    [ev |-> "attempt", loop |-> loop, n |-> n, delay |-> 0, outcome |-> outcome]
SleepEv(loop, n, delay) ==
    [ev |-> "sleep", loop |-> loop, n |-> n, delay |-> delay, outcome |-> ""]
CallEv(name, loop) ==
    [ev |-> name, loop |-> loop, n |-> 0, delay |-> 0, outcome |-> ""]

\* Variant: the primary loop lower-cases the text as the alternate loop does
IsLockErrorPrimaryAnyCase(error_msg) ==
    Contains(Lower(error_msg), "winerror 32") \/ Contains(Lower(error_msg), "permission denied")

\* video_processor.py:140
IsLockErrorPrimary(error_msg) ==
    Contains(error_msg, "WinError 32") \/ Contains(error_msg, "Permission denied")

\* Variant: the text is compared without str.lower()
IsLockErrorFallbackNoLower(e) ==
    Contains(e, "winerror 32") \/ Contains(e, "permission denied")

\* video_processor.py:89-90
IsLockErrorFallback(e) ==
    LET error_msg == Lower(e)
    IN  Contains(error_msg, "winerror 32") \/ Contains(error_msg, "permission denied")

\* Variant: every non-lock error gets the generic reason
FallbackReasonGeneric(e) == "YouTube download failed"

\* video_processor.py:95-102: the exception raised for a non-lock error
FallbackReason(e) ==
    LET error_msg == Lower(e)
    IN  CASE Contains(error_msg, "age restricted") -> "Age-restricted video. Cannot download."
          [] Contains(error_msg, "unavailable")    -> "Video is unavailable or private."
          [] Contains(error_msg, "sign in")        -> "Video requires sign-in to access."
          [] OTHER                                 -> "YouTube download failed"

\* video_processor.py:141 and :91
Delay(k) == base_delay * (2 ^ k)

NoError == {}

NoResult == [kind |-> "none", value |-> "", cause |-> NoError]
Returned(path) == [kind |-> "return", value |-> path, cause |-> NoError]
\* cause: the exception being handled when this one was raised (__context__)
Raised(reason, cause) == [kind |-> "raise", value |-> reason, cause |-> cause]

\* A decodable frame as the decoder hands it out: its index in the source and
\* what has been drawn on it, in drawing order.
RawFrame(i) == [src |-> i, drawn |-> <<>>]

\* A video file: origin tells who wrote it, finished is FALSE while (or if for
\* ever) the writer has not been released by the operation that opened it.
Video(origin, n, fps) ==
    [kind |-> "video", origin |-> origin, fps |-> fps,
     frames |-> [i \in 1..n |-> RawFrame(i)], finished |-> TRUE]

DownloadedVideo == Video("download", 1, 1)

\* One track of an adaptive (DASH) format downloaded on its own: the picture
\* without sound, and the sound
VideoOnlyFile == Video("video_only", 1, 1)
AudioOnlyFile == [kind |-> "audio", origin |-> "audio_only"]

\* What yt-dlp leaves for 'bestvideo[ext=webm]+bestaudio[ext=webm]/best[ext=webm]/best'
\* (video_processor.py:127): one file (a combined format, or two tracks it has
\* merged itself), or the two tracks unmerged when it has no merger to run.
PrimaryYields == {"single", "separate"}

\* The stream the filters pick (video_processor.py:70-80): a progressive one, or
\* the first adaptive one
FallbackStreams == {"progressive", "adaptive"}

\* Entry of download_youtube_video_fallback (video_processor.py:59-63), given the
\* events so far.
EnterFallback(evs) ==
    /\ scratchDir' = TRUE
    /\ dl_pc' = "fallback"
    /\ attempt' = 0
    /\ events' = evs \o <<CallEv("fallback_call", "fallback"), CallEv("makedirs", "fallback")>>
    /\ UNCHANGED <<files, dl_result>>

\* download_youtube_video, entry (video_processor.py:117-121)
EnterDownload(url) ==
    /\ youtube_url' = url
    /\ scratchDir' = TRUE
    /\ dl_pc' = "primary"
    /\ attempt' = 0
    /\ events' = <<CallEv("makedirs", "primary")>>
    /\ dl_result' = NoResult
    /\ UNCHANGED files

\* One iteration of the yt-dlp loop that succeeds (video_processor.py:123-136)
PrimarySucceeds ==
    /\ dl_pc = "primary"
    /\ attempt < PrimaryMaxAttempts
    /\ events' = Append(events, AttemptEv("primary", attempt, "ok"))
    /\ \E yield \in PrimaryYields :
          files' = IF yield = "single"
                   THEN [files EXCEPT !["scratch/title.webm"] = DownloadedVideo]
                   ELSE [files EXCEPT !["scratch/title.f1.webm"] = VideoOnlyFile,
                                      !["scratch/title.f2.webm"] = AudioOnlyFile]
    /\ dl_result' = Returned("scratch/title.webm")
    /\ dl_pc' = "done"
    /\ UNCHANGED <<scratchDir, youtube_url, attempt>>

\* One iteration of the yt-dlp loop that raises e (video_processor.py:138-150)
PrimaryFails(e) ==
    /\ dl_pc = "primary"
    /\ attempt < PrimaryMaxAttempts
    /\ LET tried == Append(events, AttemptEv("primary", attempt, Observe(e)))
       IN  IF IsLockErrorPrimary(e)
           THEN LET slept == Append(tried, SleepEv("primary", attempt, Delay(attempt)))
                IN  IF attempt + 1 < PrimaryMaxAttempts
                    THEN /\ events' = slept
                         /\ attempt' = attempt + 1
                         /\ UNCHANGED <<scratchDir, files, dl_pc, dl_result>>
                    ELSE EnterFallback(slept)
           ELSE EnterFallback(tried)
    /\ UNCHANGED youtube_url

\* One iteration of the pytubefix loop that succeeds (video_processor.py:65-86)
FallbackSucceeds ==
    /\ dl_pc = "fallback"
    /\ attempt < FallbackMaxAttempts
    /\ events' = Append(events, AttemptEv("fallback", attempt, "ok"))
    /\ \E stream \in FallbackStreams :
          files' = [files EXCEPT !["scratch/title.mp4"] =
                      IF stream = "progressive" THEN DownloadedVideo ELSE VideoOnlyFile]
    /\ dl_result' = Returned("scratch/title.mp4")
    /\ dl_pc' = "done"
    /\ UNCHANGED <<scratchDir, youtube_url, attempt>>

\* One iteration of the pytubefix loop that raises e (video_processor.py:88-104)
FallbackFails(e) ==
    /\ dl_pc = "fallback"
    /\ attempt < FallbackMaxAttempts
    /\ LET tried == Append(events, AttemptEv("fallback", attempt, Observe(e)))
       IN  IF IsLockErrorFallback(e)
           THEN /\ events' = Append(tried, SleepEv("fallback", attempt, Delay(attempt)))
                /\ attempt' = attempt + 1
                /\ IF attempt + 1 < FallbackMaxAttempts
                   THEN UNCHANGED <<dl_pc, dl_result>>
                   ELSE /\ dl_pc' = "done"
                        /\ dl_result' = Raised("All attempts failed due to file access issues with pytubefix.", NoError)
           ELSE /\ events' = tried
                /\ dl_pc' = "done"
                /\ dl_result' = Raised(FallbackReason(e), e)
                /\ UNCHANGED attempt
    /\ UNCHANGED <<scratchDir, files, youtube_url>>

----------------------------------------------------------------------------
(* Segment extractor and overlay compositor (video_processor.py).          *)

ProbeFrames == 10       \* video_processor.py:166
MaxFrames == 12
MaxTime == 1
MaxSubs == 2

NoCall == [name |-> "none"]
None == "None"
BadText == "<not a string>"

Garbage == [kind |-> "garbage"]
Image(channels) == [kind |-> "image", channels |-> channels]

\* cv2.VideoCapture(path).isOpened()
IsOpened(f) == f.kind = "video" /\ f.finished

\* Whether cv2.VideoWriter(path, fourcc, fps, size) opens: the writer refuses a
\* frame rate or a frame size that is not positive, and then creates no file
\* and ignores every write.
WriterOpens(src) == IsOpened(src) /\ src.fps > 0

\* The file cv2.VideoWriter(path, ...) leaves when it is constructed
OpenedWriter(fps) ==
    [kind |-> "video", origin |-> "writer", fps |-> fps, frames |-> <<>>, finished |-> FALSE]

\* start <= frame_count / fps <= end (video_processor.py:189-193), fps > 0
InWindow(entry, frame_count, fps) ==
    entry.start * fps <= frame_count /\ frame_count <= entry.end * fps

\* Variant: the inner loop without its break draws every entry in its window
RenderedEntriesNoBreak(subtitles, frame_count, fps) ==
    LET active == {i \in DOMAIN subtitles : InWindow(subtitles[i], frame_count, fps)}
    IN  SelectSeq([i \in DOMAIN subtitles |-> i], LAMBDA i : i \in active)

\* The entries the inner loop draws on the frame at frame_count
\* (video_processor.py:192-217): the first one in its window, then break.
RenderedEntries(subtitles, frame_count, fps) ==
    LET active == {i \in DOMAIN subtitles : InWindow(subtitles[i], frame_count, fps)}
    IN  IF active = {} THEN <<>>
        ELSE <<CHOOSE i \in active : \A j \in active : i <= j>>

\* frame after cv2.rectangle / cv2.putText of the given texts
DrawAll(frame, texts) == [frame EXCEPT !.drawn = @ \o texts]

\* Whether the body of the while loop raises for the frame at frame_count:
\* frame_count / fps with fps = 0, or cv2.getTextSize on a text that is no string.
SubtitleFrameRaises(subtitles, frame_count, fps) ==
    \/ fps = 0
    \/ \E k \in DOMAIN RenderedEntries(subtitles, frame_count, fps) :
          subtitles[RenderedEntries(subtitles, frame_count, fps)[k]].text = BadText

SubtitleFrame(frame, subtitles, frame_count, fps) ==
    LET r == RenderedEntries(subtitles, frame_count, fps)
    IN  DrawAll(frame, [k \in DOMAIN r |-> subtitles[r[k]].text])

\* First frame the while loop reads: the ten probe reads are not rewound
\* (video_processor.py:166-171, 184-185).
FirstLoopFrame == ProbeFrames + 1

\* The path returned when an exception reaches the handler
\* (video_processor.py:230-233 and :308-310)
OnException(video_path, output_path) == video_path

\* add_subtitles_to_video (video_processor.py:152-233).  readable: how many
\* frames of the source cap.read() yields in all (every frame, unless the
\* writer has truncated the file being read).
add_subtitles_to_video(video_path, subtitles, output_path, readable) ==
    LET src == files[video_path]
    IN  IF ~IsOpened(src)
        THEN /\ m_ret' = video_path
             /\ m_events' = <<"open">>
             /\ UNCHANGED files
        ELSE IF Len(src.frames) < ProbeFrames
        THEN /\ m_ret' = video_path
             /\ m_events' = <<"open", "probe">>
             /\ UNCHANGED files
        ELSE
          LET fps == src.fps
              count == readable - (FirstLoopFrame - 1)     \* frames the loop reads
              bad == {c \in 0..(count - 1) : SubtitleFrameRaises(subtitles, c, fps)}
              done == IF bad = {} THEN count
                      ELSE CHOOSE c \in bad : \A d \in bad : c <= d
              written == [c \in 1..done |->
                            SubtitleFrame(src.frames[FirstLoopFrame + c - 1], subtitles, c - 1, fps)]
          IN  /\ files' = IF WriterOpens(src)
                          THEN [files EXCEPT ![output_path] =
                                  [OpenedWriter(fps) EXCEPT !.frames = written,
                                                            !.finished = (bad = {})]]
                          ELSE files
              /\ m_ret' = IF bad = {} THEN output_path
                          ELSE OnException(video_path, output_path)
              /\ m_events' = <<"open", "probe", "writer">>
                               \o [c \in 1..done |-> "write"]
                               \o (IF bad = {} THEN <<"release">> ELSE <<"except">>)

\* What add_branding draws on every frame (video_processor.py:263-298)
BrandingTexts(logo_img, tagline) ==
    (IF logo_img.kind = "image" THEN <<"logo">> ELSE <<>>)
      \o (IF tagline \notin {None, ""} THEN <<tagline>> ELSE <<>>)

\* add_branding (video_processor.py:235-310)
add_branding(video_path, logo_path, tagline, output_path, readable) ==
    LET out_path == IF output_path = None THEN video_path ELSE output_path
        src == files[video_path]
        has_logo == logo_path # None /\ files[logo_path].kind # "absent"
        \* cv2.imread gives None for a file that is no image; cv2.resize(None) raises
        load_raises == has_logo /\ files[logo_path].kind # "image"
        logo_img == IF has_logo /\ ~load_raises THEN files[logo_path] ELSE NoFile
        \* logo_img.shape[2] of a single-channel image; getTextSize of a non-string
        frame_raises == \/ (logo_img.kind = "image" /\ logo_img.channels = 1)
                        \/ tagline = BadText
        count == IF IsOpened(src) /\ ~load_raises THEN readable ELSE 0
        raises == load_raises \/ (count > 0 /\ frame_raises)
        written == IF raises THEN <<>>
                   ELSE [c \in 1..count |-> DrawAll(src.frames[c], BrandingTexts(logo_img, tagline))]
    IN  /\ files' = IF WriterOpens(src)
                    THEN [files EXCEPT ![out_path] =
                            [OpenedWriter(src.fps) EXCEPT !.frames = written,
                                                          !.finished = ~raises]]
                    ELSE files
        /\ m_ret' = IF raises THEN OnException(video_path, out_path) ELSE out_path
        /\ m_events' = <<"open", "writer">>
                         \o [c \in 1..Len(written) |-> "write"]
                         \o (IF raises THEN <<"except">> ELSE <<"release">>)

\* The frames ffmpeg copies for -ss start -t (end - start)
ExtractedFrames(src, start_time, end_time) ==
    SelectSeq(src.frames,
              LAMBDA f : start_time * src.fps <= f.src - 1 /\ f.src - 1 < end_time * src.fps)

\* ffmpeg_extract_subclip (external): "ok" writes the segment, "fail" exits
\* nonzero leaving nothing, "fail_partial" exits nonzero leaving what it wrote.
FfmpegOutcomes == {"ok", "fail", "fail_partial"}

\* Variant: ret is not looked at
HasFrameUnchecked(src) == TRUE

\* ret of the single cap.read() (video_processor.py:36-39)
HasFrame(src) == Len(src.frames) > 0

\* Variant: True is returned whether or not the extraction raised
ExtractionResultUnguarded(outcome) == "True"

\* What process_video_file returns once the extraction has been invoked
\* (video_processor.py:42-46): True, or False from the handler when it raised
ExtractionResult(outcome) == IF outcome = "ok" THEN "True" ELSE "False"

\* process_video_file (video_processor.py:16-46)
process_video_file(video_path, output_path, start_time, end_time, outcome) ==
    LET src == files[video_path]
    IN  IF ~IsOpened(src)
        THEN /\ m_ret' = "False"
             /\ m_events' = <<"open", "except">>
             /\ UNCHANGED files
        ELSE IF ~HasFrame(src)
        THEN /\ m_ret' = "False"
             /\ m_events' = <<"open", "read", "except">>
             /\ UNCHANGED files
        ELSE /\ m_events' = <<"open", "read", "ffmpeg">>
                              \o (IF outcome = "ok" THEN <<>> ELSE <<"except">>)
             /\ m_ret' = ExtractionResult(outcome)
             /\ files' =
                  CASE outcome = "ok" ->
                         [files EXCEPT ![output_path] =
                            [kind |-> "video", origin |-> "ffmpeg", fps |-> src.fps,
                             frames |-> ExtractedFrames(src, start_time, end_time),
                             finished |-> TRUE]]
                    [] outcome = "fail_partial" ->
                         [files EXCEPT ![output_path] =
                            [kind |-> "video", origin |-> "ffmpeg", fps |-> src.fps,
                             frames |-> <<>>, finished |-> FALSE]]
                    [] OTHER -> files

----------------------------------------------------------------------------
(* Session state of the step machine (main.py).                            *)

NoVideo == [kind |-> "none", url |-> NoURL, path |-> None]
RemoteSource(url) == [kind |-> "url", url |-> url, path |-> None]
LocalSource(path) == [kind |-> "path", url |-> NoURL, path |-> path]

\* init_session_state (main.py:73-96): every key that is missing gets its default
SessionDefaults ==
    [k \in {"current_step", "video_path", "duration", "tone", "teaser_path",
            "caption", "add_subtitles", "add_music"} |->
        CASE k = "current_step"  -> "welcome"
          [] k = "video_path"    -> NoVideo
          [] k = "duration"      -> 30
          [] k = "tone"          -> "Professional"
          [] k = "teaser_path"   -> None
          [] k = "caption"       -> None
          [] k = "add_subtitles" -> TRUE
          [] k = "add_music"     -> TRUE]

init_session_state(ss) ==
    [k \in DOMAIN ss \cup DOMAIN SessionDefaults |->
        IF k \in DOMAIN ss THEN ss[k] ELSE SessionDefaults[k]]

\* st.session_state.key = value
SetKey(ss, key, value) ==
    [k \in DOMAIN ss \cup {key} |-> IF k = key THEN value ELSE ss[k]]

\* getattr(st.session_state, key, None)
GetAttr(ss, key) == IF key \in DOMAIN ss THEN ss[key] ELSE None

\* The state in which no handler of the step machine has run
UIIdle ==
    /\ session_state = SessionDefaults
    /\ pv_pc = "idle"
    /\ highlights = <<>>
    /\ st_error = ""
    /\ pv_log = <<>>

----------------------------------------------------------------------------
(* Inputs of the media operations.                                         *)

Paths ==
    {"in.mp4", "out.mp4", "logo_rgba.png", "logo_rgb.png", "logo_gray.png",
     "logo_bad.png", "scratch/title.webm", "scratch/title.mp4",
     "scratch/title.f1.webm", "scratch/title.f2.webm", "temp_logo.png",
     "tmp/upload.mp4", "outputs/teaser.mp4",
     "outputs/teaser_professional_30s.mp4", "outputs/teaser_exciting_120s.mp4"}

Texts == {"A", "B", BadText}

SubtitleEntries ==
    {e \in [start : 0..MaxTime, end : 0..MaxTime, text : Texts] : e.start <= e.end}

SubtitleLists == UNION {[1..n -> SubtitleEntries] : n \in 0..MaxSubs}

FrameCounts == {0, ProbeFrames - 1, ProbeFrames, MaxFrames}

FrameRates == {0, 1, 2}

InputFiles ==
    {NoFile, Garbage} \cup {Video("source", n, fps) : n \in FrameCounts, fps \in FrameRates}

PriorArtifact == Video("prior", 1, 1)

BaseFiles ==
    [p \in Paths |->
        CASE p = "logo_rgba.png" -> Image(4)
          [] p = "logo_rgb.png"  -> Image(3)
          [] p = "logo_gray.png" -> Image(1)
          [] p = "logo_bad.png"  -> Garbage
          [] OTHER               -> NoFile]

MediaCall(name, video_path, output_path, subtitles, logo_path, tagline, start_time, end_time) ==
    [name |-> name, video_path |-> video_path, output_path |-> output_path,
     subtitles |-> subtitles, logo_path |-> logo_path, tagline |-> tagline,
     start_time |-> start_time, end_time |-> end_time,
     fs_before |-> files]      \* the filesystem when the call was made

\* Frames cap.read() can still yield when the writer was opened on out_path
ReadableCounts(video_path, out_path, from) ==
    LET src == files[video_path]
    IN  IF out_path = video_path /\ WriterOpens(src) /\ Len(src.frames) >= from
        THEN from..Len(src.frames)
        ELSE {IF IsOpened(src) THEN Len(src.frames) ELSE 0}

CallAddSubtitles ==
    /\ m_op = NoCall
    /\ \E subtitles \in SubtitleLists, output_path \in {"out.mp4", "in.mp4"} :
         \E readable \in ReadableCounts("in.mp4", output_path, ProbeFrames) :
            /\ m_op' = MediaCall("add_subtitles_to_video", "in.mp4", output_path,
                                 subtitles, None, None, 0, 0)
            /\ add_subtitles_to_video("in.mp4", subtitles, output_path, readable)
    /\ UNCHANGED <<scratchDir, dl_pc, youtube_url, attempt, events, dl_result>>
    /\ UNCHANGED uiVars

CallAddBranding ==
    /\ m_op = NoCall
    /\ \E logo_path \in {None, "logo_rgba.png", "logo_rgb.png", "logo_gray.png",
                         "logo_bad.png", "temp_logo.png"},
          tagline \in {None, "", "A", BadText},
          output_path \in {None, "out.mp4"} :
         \E readable \in ReadableCounts("in.mp4",
                                        IF output_path = None THEN "in.mp4" ELSE output_path, 0) :
            /\ m_op' = MediaCall("add_branding", "in.mp4", output_path,
                                 <<>>, logo_path, tagline, 0, 0)
            /\ add_branding("in.mp4", logo_path, tagline, output_path, readable)
    /\ UNCHANGED <<scratchDir, dl_pc, youtube_url, attempt, events, dl_result>>
    /\ UNCHANGED uiVars

CallProcessVideoFile ==
    /\ m_op = NoCall
    /\ \E start_time \in 0..MaxTime, end_time \in 0..MaxTime, outcome \in FfmpegOutcomes :
            /\ m_op' = MediaCall("process_video_file", "in.mp4", "out.mp4",
                                 <<>>, None, None, start_time, end_time)
            /\ process_video_file("in.mp4", "out.mp4", start_time, end_time, outcome)
    /\ UNCHANGED <<scratchDir, dl_pc, youtube_url, attempt, events, dl_result>>
    /\ UNCHANGED uiVars

InitMedia ==
    /\ scratchDir = FALSE
    /\ \E src \in InputFiles, prior \in {NoFile, PriorArtifact} :
          files = [BaseFiles EXCEPT !["in.mp4"] = src, !["out.mp4"] = prior]
    /\ dl_pc = "idle"
    /\ youtube_url = NoURL
    /\ attempt = 0
    /\ events = <<>>
    /\ dl_result = NoResult
    /\ m_op = NoCall
    /\ m_ret = None
    /\ m_events = <<>>
    /\ UIIdle

NextMedia == CallAddSubtitles \/ CallAddBranding \/ CallProcessVideoFile

vars == <<scratchDir, files, dl_pc, youtube_url, attempt, events, dl_result,
          m_op, m_ret, m_events, session_state, pv_pc, highlights, st_error, pv_log>>

SpecMedia == InitMedia /\ [][NextMedia]_vars

----------------------------------------------------------------------------
(* The fetcher called on its own, with any URL.                            *)

CallDownload ==
    /\ dl_pc = "idle"
    /\ \E url \in URLs : EnterDownload(url)
    /\ UNCHANGED mediaVars
    /\ UNCHANGED uiVars

PrimaryAttempt ==
    /\ \/ PrimarySucceeds
       \/ \E e \in Messages : PrimaryFails(e)
    /\ UNCHANGED mediaVars
    /\ UNCHANGED uiVars

FallbackAttempt ==
    /\ \/ FallbackSucceeds
       \/ \E e \in Messages : FallbackFails(e)
    /\ UNCHANGED mediaVars
    /\ UNCHANGED uiVars

InitFetch ==
    /\ scratchDir \in BOOLEAN
    /\ files = BaseFiles
    /\ dl_pc = "idle"
    /\ youtube_url = NoURL
    /\ attempt = 0
    /\ events = <<>>
    /\ dl_result = NoResult
    /\ m_op = NoCall
    /\ m_ret = None
    /\ m_events = <<>>
    /\ UIIdle

NextFetch == CallDownload \/ PrimaryAttempt \/ FallbackAttempt

SpecFetch == InitFetch /\ [][NextFetch]_vars

\* The call runs in one thread: an attempt (the client's call and the
\* time.sleep after it) that can be made is made.
SpecFetchLive ==
    InitFetch /\ [][NextFetch]_vars /\ WF_vars(PrimaryAttempt \/ FallbackAttempt)

----------------------------------------------------------------------------
(* Simulated content analysis and teaser generation (ai_integration.py).   *)

video_duration == 300       \* ai_integration.py:26
MinHighlights == 3          \* ai_integration.py:29
MaxHighlights == 5          \* ai_integration.py:29
ClipLimit == 3              \* ai_integration.py:65
TimeScale == 60             \* times are kept in 1/60 s, so target / num is exact

Min(a, b) == IF a <= b THEN a ELSE b
Max(a, b) == IF a >= b THEN a ELSE b

\* Sample draws <<start, score>> of random.randint(0, hi) and of
\* random.uniform(0.7, 1.0) (the score in 1/100)
DrawSamples(hi) == {<<0, 70>>, <<hi, 100>>}

\* One highlight (ai_integration.py:33-42)
Highlight(i, start, score, target_duration, num_highlights) ==
    [start |-> start * TimeScale,
     end |-> Min(video_duration * TimeScale,
                 start * TimeScale + (target_duration * TimeScale) \div num_highlights),
     score |-> score,
     description |-> i]

\* highlights.sort(key=score, reverse=True): stable
RECURSIVE SortByScore(_)
SortByScore(hs) ==
    IF hs = <<>> THEN <<>>
    ELSE LET rest == SortByScore(SubSeq(hs, 1, Len(hs) - 1))
             x == hs[Len(hs)]
             before == SelectSeq(rest, LAMBDA h : h.score >= x.score)
             after == SelectSeq(rest, LAMBDA h : h.score < x.score)
         IN  before \o <<x>> \o after

\* analyze_video_content (ai_integration.py:14-46) for the given draws
analyze_video_content(target_duration, num_highlights, draws) ==
    SortByScore([i \in 1..num_highlights |->
                   Highlight(i, draws[i][1], draws[i][2], target_duration, num_highlights)])

AnalysisDraws(target_duration, num_highlights) ==
    [1..num_highlights -> DrawSamples(Max(0, video_duration - target_duration))]

\* Widget values read by the run of get_user_preferences that starts processing
Preferences ==
    {[duration |-> 30, tone |-> "Professional", logo |-> None, tagline |-> None,
      add_subtitles |-> TRUE, add_music |-> TRUE],
     [duration |-> 30, tone |-> "Professional", logo |-> "logo", tagline |-> None,
      add_subtitles |-> FALSE, add_music |-> TRUE],
     [duration |-> 120, tone |-> "Exciting", logo |-> None, tagline |-> "A",
      add_subtitles |-> TRUE, add_music |-> FALSE],
     [duration |-> 120, tone |-> "Exciting", logo |-> "logo", tagline |-> "A",
      add_subtitles |-> FALSE, add_music |-> FALSE]}

\* output_path of generate_teaser_clip (ai_integration.py:57-61)
TeaserPath(tone, duration) ==
    CASE tone = "Professional" /\ duration = 30 -> "outputs/teaser_professional_30s.mp4"
      [] tone = "Exciting" /\ duration = 120    -> "outputs/teaser_exciting_120s.mp4"
      [] OTHER                                  -> "outputs/teaser.mp4"

\* add_subtitles_and_branding(video_clip, subtitles, logo_path, tagline, output_path):
\* writes the composited clip to output_path and returns it, or raises.
add_subtitles_and_branding(fs, output_path, ok) ==
    IF ok THEN [fs EXCEPT ![output_path] = Video("teaser", 1, 1)] ELSE fs

\* Variant: the logo file is removed after the overlay call, with no finally
RemoveTempLogoOnSuccess(fs, logo_file_path, overlay_ok) ==
    IF overlay_ok /\ logo_file_path # None /\ fs[logo_file_path] # NoFile
    THEN [fs EXCEPT ![logo_file_path] = NoFile]
    ELSE fs

\* The finally block of generate_teaser_clip (ai_integration.py:113-118), run
\* whether add_subtitles_and_branding returned or raised
RemoveTempLogo(fs, logo_file_path, overlay_ok) ==
    IF logo_file_path # None /\ fs[logo_file_path] # NoFile
    THEN [fs EXCEPT ![logo_file_path] = NoFile]
    ELSE fs

\* Whether VideoFileClip(video_path) can decode the source
Decodable(video_path) ==
    video_path.kind = "path" /\ IsOpened(files[video_path.path])

\* generate_teaser_clip (ai_integration.py:48-122): the files it leaves and how it
\* ends.  clips_ok: VideoFileClip/subclip/concatenate succeed on a decodable source;
\* overlay_ok: add_subtitles_and_branding succeeds.
generate_teaser_clip(video_path, hs, duration, tone, logo, tagline, clips_ok, overlay_ok) ==
    LET output_path == TeaserPath(tone, duration)
        clips == SubSeq(hs, 1, Min(ClipLimit, Len(hs)))
    IN  IF clips # <<>> /\ ~(clips_ok /\ Decodable(video_path))
        THEN [files |-> files, effects |-> <<>>,
              result |-> Raised("Failed to generate teaser clip", NoError)]
        ELSE IF clips = <<>>
        THEN [files |-> files, effects |-> <<>>, result |-> Returned(None)]
        ELSE LET logo_file_path == IF logo # None THEN "temp_logo.png" ELSE None
                 with_logo == IF logo # None
                              THEN [files EXCEPT !["temp_logo.png"] = Image(4)]
                              ELSE files
                 composed == add_subtitles_and_branding(with_logo, output_path, overlay_ok)
                 cleaned == RemoveTempLogo(composed, logo_file_path, overlay_ok)
             IN  [files |-> cleaned,
                  effects |-> (IF logo # None THEN <<"logo_written">> ELSE <<>>)
                                \o <<"overlay">>
                                \o (IF logo # None /\ cleaned["temp_logo.png"] = NoFile
                                    THEN <<"logo_removed">> ELSE <<>>),
                  result |-> IF overlay_ok THEN Returned(None)
                             ELSE Raised("Failed to generate teaser clip", NoError)]

\* generate_caption (ai_integration.py:125-145)
generate_caption(tone) ==
    CASE tone = "Professional"  -> "Introducing our latest solution"
      [] tone = "Exciting"      -> "Get ready for something amazing"
      [] tone = "Educational"   -> "Learn how our new approach can help"
      [] tone = "Inspirational" -> "Unlock your potential"
      [] OTHER                  -> "Check out our latest content!"

----------------------------------------------------------------------------
(* The step machine (main.py): one action per handler run.                 *)

Step == session_state["current_step"]

\* An entry of the log of a run: a stage of process_video starts or ends, or does
\* something in between
StageEv(stage, ev) == [stage |-> stage, ev |-> ev]

\* "youtube.com" in url or "youtu.be" in url (main.py:306)
LooksRemote(video_path) ==
    /\ video_path.kind = "url"
    /\ \/ (video_path.url.host = "youtube" /\ video_path.url.tld = ".com")
       \/ (video_path.url.host = "youtu" /\ video_path.url.tld = ".be")

UploadContents == {Video("upload", ProbeFrames, 1), Garbage}

\* Error texts of the download client met while the step machine runs
SessionMessages == {{"WinError 32"}, {"unavailable"}, {"timed out"}}

\* show_welcome: "Create Your Teaser Now" (main.py:153-155)
ClickCreate ==
    /\ Step = "welcome" /\ pv_pc = "idle"
    /\ session_state' = SetKey(session_state, "current_step", "video_input")
    /\ st_error' = ""
    /\ UNCHANGED <<dlVars, mediaVars, pv_pc, highlights, pv_log>>

\* handle_video_input: a file is uploaded (main.py:178-194)
UploadFile ==
    /\ Step = "video_input" /\ pv_pc = "idle"
    /\ \E content \in UploadContents, too_large \in BOOLEAN :
         IF too_large
         THEN /\ st_error' = "File size exceeds the maximum limit"
              /\ UNCHANGED <<session_state, files>>
         ELSE /\ files' = [files EXCEPT !["tmp/upload.mp4"] = content]
              /\ session_state' = SetKey(session_state, "video_path", LocalSource("tmp/upload.mp4"))
              /\ st_error' = ""
    /\ UNCHANGED <<scratchDir, dl_pc, youtube_url, attempt, events, dl_result>>
    /\ UNCHANGED <<mediaVars, pv_pc, highlights, pv_log>>

\* handle_video_input: a URL is typed (main.py:196-208)
EnterURL ==
    /\ Step = "video_input" /\ pv_pc = "idle"
    /\ \E url \in URLs :
         IF validate_youtube_url(url)
         THEN /\ session_state' = SetKey(session_state, "video_path", RemoteSource(url))
              /\ st_error' = ""
         ELSE /\ st_error' = "Please enter a valid YouTube URL"
              /\ UNCHANGED session_state
    /\ UNCHANGED <<dlVars, mediaVars, pv_pc, highlights, pv_log>>

\* handle_video_input: "Continue to Preferences" (main.py:210-214)
ClickContinue ==
    /\ Step = "video_input" /\ pv_pc = "idle"
    /\ session_state["video_path"].kind # "none" /\ st_error = ""
    /\ session_state' = SetKey(session_state, "current_step", "preferences")
    /\ UNCHANGED <<dlVars, mediaVars, pv_pc, highlights, st_error, pv_log>>

\* get_user_preferences: the run in which "Generate Teaser" is clicked, with the
\* widget values it reads (main.py:219-281)
ClickGenerate ==
    /\ Step = "preferences" /\ pv_pc = "idle"
    /\ \E w \in Preferences :
         LET s1 == SetKey(SetKey(session_state, "duration", w.duration), "tone", w.tone)
             s2 == IF w.logo # None THEN SetKey(s1, "logo", w.logo) ELSE s1
             s3 == IF w.tagline # None THEN SetKey(s2, "tagline", w.tagline) ELSE s2
             s4 == SetKey(SetKey(s3, "add_subtitles", w.add_subtitles),
                          "add_music", w.add_music)
         IN  session_state' = SetKey(s4, "current_step", "processing")
    /\ st_error' = ""
    /\ UNCHANGED <<dlVars, mediaVars, pv_pc, highlights, pv_log>>

\* process_video up to the download call (main.py:286-309)
PVStart ==
    /\ Step = "processing" /\ pv_pc = "idle"
    /\ st_error' = ""
    /\ IF LooksRemote(session_state["video_path"])
       THEN /\ EnterDownload(session_state["video_path"].url)
            /\ pv_pc' = "download"
            /\ pv_log' = <<StageEv("fetch", "start")>>
       ELSE /\ pv_pc' = "analyze"
            /\ pv_log' = <<>>
            /\ UNCHANGED dlVars
    /\ UNCHANGED <<mediaVars, session_state, highlights>>

PVPrimaryAttempt ==
    /\ pv_pc = "download"
    /\ \/ PrimarySucceeds
       \/ \E e \in SessionMessages : PrimaryFails(e)
    /\ UNCHANGED <<mediaVars, uiVars>>

PVFallbackAttempt ==
    /\ pv_pc = "download"
    /\ \/ FallbackSucceeds
       \/ \E e \in SessionMessages : FallbackFails(e)
    /\ UNCHANGED <<mediaVars, uiVars>>

\* Variant: the except branch of the download does not end the run (no
\* st.rerun()), and the run goes on to the analysis
PVDownloadDoneContinues ==
    /\ pv_pc = "download" /\ dl_pc = "done"
    /\ IF dl_result.kind = "return"
       THEN /\ session_state' = SetKey(session_state, "video_path", LocalSource(dl_result.value))
            /\ pv_log' = Append(pv_log, StageEv("fetch", "ok"))
            /\ UNCHANGED st_error
       ELSE /\ st_error' = "Error downloading YouTube video"
            /\ pv_log' = Append(pv_log, StageEv("fetch", "fail"))
            /\ UNCHANGED session_state
    /\ pv_pc' = "analyze"
    /\ dl_pc' = "idle"
    /\ youtube_url' = NoURL
    /\ attempt' = 0
    /\ events' = <<>>
    /\ dl_result' = NoResult
    /\ UNCHANGED <<scratchDir, files>>
    /\ UNCHANGED <<mediaVars, highlights>>

\* process_video after download_youtube_video has ended (main.py:310-317)
PVDownloadDone ==
    /\ pv_pc = "download" /\ dl_pc = "done"
    /\ IF dl_result.kind = "return"
       THEN /\ session_state' = SetKey(session_state, "video_path", LocalSource(dl_result.value))
            /\ pv_pc' = "analyze"
            /\ pv_log' = Append(pv_log, StageEv("fetch", "ok"))
            /\ UNCHANGED st_error
       ELSE \* current_step is left as it is, and st.rerun() runs process_video again
            /\ st_error' = "Error downloading YouTube video"
            /\ pv_pc' = "idle"
            /\ pv_log' = Append(pv_log, StageEv("fetch", "fail"))
            /\ UNCHANGED session_state
    \* the call's locals end with it
    /\ dl_pc' = "idle"
    /\ youtube_url' = NoURL
    /\ attempt' = 0
    /\ events' = <<>>
    /\ dl_result' = NoResult
    /\ UNCHANGED <<scratchDir, files>>
    /\ UNCHANGED <<mediaVars, highlights>>

\* process_video: analysis stage (main.py:319-332)
PVAnalyze ==
    /\ pv_pc = "analyze"
    /\ \E num_highlights \in MinHighlights..MaxHighlights :
         \E draws \in AnalysisDraws(session_state["duration"], num_highlights) :
            highlights' = analyze_video_content(session_state["duration"], num_highlights, draws)
    /\ pv_pc' = "teaser"
    /\ pv_log' = pv_log \o <<StageEv("analysis", "start"), StageEv("analysis", "ok")>>
    /\ UNCHANGED <<dlVars, mediaVars, session_state, st_error>>

\* process_video: teaser stage (main.py:334-353)
PVTeaser ==
    /\ pv_pc = "teaser"
    /\ \E clips_ok \in BOOLEAN, overlay_ok \in BOOLEAN :
         LET r == generate_teaser_clip(session_state["video_path"], highlights,
                                       session_state["duration"], session_state["tone"],
                                       GetAttr(session_state, "logo"),
                                       GetAttr(session_state, "tagline"),
                                       clips_ok, overlay_ok)
         IN  /\ files' = r.files
             /\ pv_log' = pv_log \o <<StageEv("teaser", "start")>>
                             \o [i \in DOMAIN r.effects |-> StageEv("teaser", r.effects[i])]
                             \o <<StageEv("teaser", IF r.result.kind = "return"
                                                    THEN "ok" ELSE "fail")>>
             /\ IF r.result.kind = "return"
                THEN /\ session_state' = SetKey(session_state, "teaser_path", r.result.value)
                     /\ pv_pc' = "caption"
                     /\ UNCHANGED st_error
                ELSE /\ st_error' = "Error generating teaser"
                     /\ session_state' = SetKey(session_state, "current_step", "video_input")
                     /\ pv_pc' = "idle"
    /\ highlights' = <<>>
    /\ UNCHANGED <<scratchDir, dl_pc, youtube_url, attempt, events, dl_result>>
    /\ UNCHANGED mediaVars

\* process_video: caption stage and the step change (main.py:355-368)
PVCaption ==
    /\ pv_pc = "caption"
    /\ session_state' =
         SetKey(SetKey(session_state, "caption", generate_caption(session_state["tone"])),
                "current_step", "output")
    /\ pv_pc' = "idle"
    /\ pv_log' = pv_log \o <<StageEv("caption", "start"), StageEv("caption", "ok")>>
    /\ UNCHANGED <<dlVars, mediaVars, highlights, st_error>>

\* cleanup_temp_files (utils.py:33-44)
cleanup_temp_files(fs) ==
    [p \in DOMAIN fs |->
        IF p \in {"scratch/title.webm", "scratch/title.mp4", "scratch/title.f1.webm",
                  "scratch/title.f2.webm", "temp_logo.png"}
        THEN NoFile ELSE fs[p]]

\* Variant: only the keys init_session_state knows are reset, the others stay
StartOverKeepsOtherKeys ==
    /\ Step = "output" /\ pv_pc = "idle"
    /\ files' = cleanup_temp_files(files)
    /\ scratchDir' = FALSE
    /\ session_state' =
         [k \in DOMAIN session_state |->
             IF k \in DOMAIN SessionDefaults THEN SessionDefaults[k] ELSE session_state[k]]
    /\ st_error' = ""
    /\ UNCHANGED <<dl_pc, youtube_url, attempt, events, dl_result>>
    /\ UNCHANGED <<mediaVars, pv_pc, highlights, pv_log>>

\* show_output_options: "Start Over" (main.py:425-434), and init_session_state of
\* the run that st.rerun() starts
StartOver ==
    /\ Step = "output" /\ pv_pc = "idle"
    /\ files' = cleanup_temp_files(files)
    /\ scratchDir' = FALSE
    /\ session_state' =
         init_session_state([k \in {"current_step"} |-> "welcome"])
    /\ st_error' = ""
    /\ UNCHANGED <<dl_pc, youtube_url, attempt, events, dl_result>>
    /\ UNCHANGED <<mediaVars, pv_pc, highlights, pv_log>>

Init ==
    /\ scratchDir = FALSE
    /\ files = BaseFiles
    /\ dl_pc = "idle"
    /\ youtube_url = NoURL
    /\ attempt = 0
    /\ events = <<>>
    /\ dl_result = NoResult
    /\ m_op = NoCall
    /\ m_ret = None
    /\ m_events = <<>>
    /\ UIIdle

Next ==
    \/ ClickCreate
    \/ UploadFile
    \/ EnterURL
    \/ ClickContinue
    \/ ClickGenerate
    \/ PVStart
    \/ PVPrimaryAttempt
    \/ PVFallbackAttempt
    \/ PVDownloadDone
    \/ PVAnalyze
    \/ PVTeaser
    \/ PVCaption
    \/ StartOver

Spec == Init /\ [][Next]_vars

----------------------------------------------------------------------------
(* Properties of the remote fetcher, checked under SpecFetch.              *)

Count(loop, ev) ==
    Len(SelectSeq(events, LAMBDA x : x.ev = ev /\ x.loop = loop))

Attempts == Count("primary", "attempt") + Count("fallback", "attempt")

\* Every download attempt made so far failed with a file-lock error spelled
\* "WinError 32" or "Permission denied".
AllAttemptsLocked ==
    \A i \in DOMAIN events : events[i].ev = "attempt" => events[i].outcome = "lock"

\* C1 as stated: when every attempt fails with a transient file-lock error, the
\* call stops after exactly 10 attempts and raises, and makes no further download
\* attempt of any kind.
C1_StopsAfterTenAttempts ==
    AllAttemptsLocked =>
        /\ Attempts <= PrimaryMaxAttempts
        /\ dl_pc = "done" => (dl_result.kind = "raise" /\ Attempts = PrimaryMaxAttempts)

\* C1 amended: when every attempt fails with a transient file-lock error, the call
\* makes exactly 10 primary attempts, then exactly 5 attempts of the alternate
\* strategy (none before the 10 primary ones), and then raises: the number of
\* attempts is bounded by 15, so it never loops indefinitely.
C1_StopsAfterPrimaryAndFallbackAttempts ==
    AllAttemptsLocked =>
        /\ Count("primary", "attempt") <= 10
        /\ Count("fallback", "attempt") <= 5
        /\ Count("fallback", "attempt") > 0 => Count("primary", "attempt") = 10
        /\ dl_pc = "done" =>
              /\ dl_result.kind = "raise"
              /\ Count("primary", "attempt") = 10
              /\ Count("fallback", "attempt") = 5
        /\ dl_pc \in {"primary", "fallback"} => Attempts < 15

C1_Witness ==
    /\ dl_pc = "done"
    /\ AllAttemptsLocked
    /\ Attempts = 15
    /\ dl_result.kind = "raise"

\* C2: a call with a URL that fails validate_youtube_url ends by raising an
\* invalid-source error, having made no download attempt and having created or
\* changed nothing on the filesystem (no makedirs of the scratch directory).
C2_InvalidUrlRejectedUntouched ==
    (dl_pc # "idle" /\ ~validate_youtube_url(youtube_url)) =>
        /\ events = <<>>
        /\ files = BaseFiles
        /\ dl_pc = "done"
        /\ dl_result.kind = "raise"

\* C4: after a primary attempt that fails with an error the primary loop does not
\* classify as a file-lock error (its text has neither "WinError 32" nor
\* "Permission denied"), nothing more happens in the primary loop (no attempt, no
\* sleep): the next event is the one call of the alternate strategy, and the call
\* ends as the alternate strategy's last attempt ends.
C4_NonTransientFallsBackOnce ==
    /\ Count("fallback", "fallback_call") <= 1
    /\ \A i \in DOMAIN events :
          (/\ events[i].ev = "attempt"
           /\ events[i].loop = "primary"
           /\ events[i].outcome \in {"other", "lock_other_case"}) =>
              /\ i < Len(events)
              /\ events[i + 1].ev = "fallback_call"
              /\ \A j \in DOMAIN events : j > i => events[j].loop = "fallback"
              /\ dl_pc \in {"fallback", "done"}
              /\ dl_pc = "done" =>
                    LET last == events[Len(events)]
                    IN  IF last.ev = "attempt" /\ last.outcome = "ok"
                        THEN dl_result = Returned("scratch/title.mp4")
                        ELSE dl_result.kind = "raise"

C4_Witness ==
    /\ dl_pc = "done"
    /\ dl_result.kind = "raise"
    /\ Count("fallback", "fallback_call") = 1
    /\ \E i \in DOMAIN events :
          /\ events[i].ev = "attempt" /\ events[i].loop = "primary"
          /\ events[i].outcome = "other"
          /\ i > 2

\* Whether an error text mentions a category, in any spelling
Mentions(e, category) == \E t \in e : LowerFragment(t) = category

PermanentReasons(e) ==
    (IF Mentions(e, "age restricted") THEN {"Age-restricted video. Cannot download."} ELSE {})
    \cup (IF Mentions(e, "unavailable") THEN {"Video is unavailable or private."} ELSE {})
    \cup (IF Mentions(e, "sign in") THEN {"Video requires sign-in to access."} ELSE {})

\* C5: the alternate strategy makes at most 5 attempts; it sleeps (and retries)
\* only after an attempt that failed with a file-lock error; an attempt that fails
\* with an error that is no file-lock error ends the call at once, with no sleep,
\* and when that error is an age-restriction, unavailability or sign-in error the
\* exception raised carries the reason of one of the categories the error has.
C5_FallbackRetriesOnlyTransient ==
    /\ Count("fallback", "attempt") <= 5
    /\ \A i \in DOMAIN events :
          (events[i].ev = "sleep" /\ events[i].loop = "fallback") =>
              /\ events[i - 1].ev = "attempt"
              /\ events[i - 1].loop = "fallback"
              /\ events[i - 1].outcome \in {"lock", "lock_other_case"}
    /\ \A i \in DOMAIN events :
          (/\ events[i].ev = "attempt" /\ events[i].loop = "fallback"
           /\ events[i].outcome = "other") =>
              /\ i = Len(events)
              /\ dl_pc = "done"
              /\ dl_result.kind = "raise"
              /\ PermanentReasons(dl_result.cause) # {} =>
                    dl_result.value \in PermanentReasons(dl_result.cause)

C5_Witness ==
    /\ dl_pc = "done"
    /\ dl_result = Raised("Video requires sign-in to access.", {"Sign in"})
    /\ Count("fallback", "attempt") = 3
    /\ Count("fallback", "sleep") = 2

\* C6: in both loops the wait after the k-th failed attempt is 5 * 2^(k-1)
\* seconds, and a wait occurs only between two attempts: a loop bounded by N
\* attempts waits at most N-1 times, and a call never ends on a wait.
C6_BackoffOnlyBetweenAttempts ==
    /\ \A i \in DOMAIN events :
          events[i].ev = "sleep" => events[i].delay = 5 * 2 ^ events[i].n
    /\ Count("primary", "sleep") <= 10 - 1
    /\ Count("fallback", "sleep") <= 5 - 1
    /\ (dl_pc = "done" /\ events # <<>>) => events[Len(events)].ev # "sleep"

----------------------------------------------------------------------------
(* Properties of the step machine, checked under Spec.                     *)

StageErrors ==
    {"Error downloading YouTube video", "Error analyzing video", "Error generating teaser"}

\* C3: when a stage of process_video has failed and its error is on display, the
\* flow has been rolled back to the source-selection step.
C3_StageFailureRollsBack ==
    st_error \in StageErrors => Step = "video_input"

----------------------------------------------------------------------------
(* Properties of the compositor and the extractor, checked under SpecMedia. *)

Compositing == m_op.name \in {"add_subtitles_to_video", "add_branding"}

\* The exception handler of the operation ran
Failed == \E i \in DOMAIN m_events : m_events[i] = "except"

IntendedOutput ==
    IF m_op.output_path = None THEN m_op.video_path ELSE m_op.output_path

\* C7: when an exception occurs while add_subtitles_to_video or add_branding is
\* at work, the operation returns the path of its input video, and the file at
\* that path is what it was when the operation was called.
C7_ExceptionReturnsUnmodifiedInput ==
    (Compositing /\ Failed) =>
        /\ m_ret = m_op.video_path
        /\ files[m_ret] = m_op.fs_before[m_ret]

\* C8: after a failed operation (extraction, subtitles, branding) the file at the
\* intended output path is absent or is still the file that was there before.
C8_FailureLeavesOutputIntact ==
    (m_op # NoCall /\ Failed) =>
        \/ files[IntendedOutput] = NoFile
        \/ files[IntendedOutput] = m_op.fs_before[IntendedOutput]

\* The entries of the call's overlay list whose window holds the timestamp
\* frame_count / fps
ActiveAt(frame_count, fps) ==
    {i \in DOMAIN m_op.subtitles :
        /\ m_op.subtitles[i].start * fps <= frame_count
        /\ frame_count <= m_op.subtitles[i].end * fps}

\* C9: on every frame add_subtitles_to_video has written for which two or more
\* overlay entries are active, exactly one text is drawn, and it is the text of
\* the first active entry in list order (as if that entry were the only one).
C9_FirstActiveEntryOnly ==
    (/\ m_op.name = "add_subtitles_to_video"
     /\ files[m_op.output_path].kind = "video"
     /\ files[m_op.output_path].origin = "writer") =>
        LET out == files[m_op.output_path]
        IN  \A c \in DOMAIN out.frames :
               LET active == ActiveAt(c - 1, out.fps)
               IN  Cardinality(active) >= 2 =>
                      \E first \in active :
                         /\ \A j \in active : first <= j
                         /\ out.frames[c].drawn = <<m_op.subtitles[first].text>>

C9_Witness ==
    /\ m_op.name = "add_subtitles_to_video"
    /\ m_ret = "out.mp4"
    /\ ~Failed
    /\ files["out.mp4"].kind = "video"
    /\ Len(m_op.subtitles) >= 2
    /\ \E c \in DOMAIN files["out.mp4"].frames :
          /\ ActiveAt(c - 1, files["out.mp4"].fps) = {1, 2}
          /\ m_op.subtitles[1].text = "A"
          /\ m_op.subtitles[2].text = "B"
          /\ files["out.mp4"].frames[c].drawn = <<"A">>

\* Index of the first occurrence of x in the events of the call (0 if none)
FirstIndex(x) ==
    IF \E i \in DOMAIN m_events : m_events[i] = x
    THEN CHOOSE i \in DOMAIN m_events :
            m_events[i] = x /\ \A j \in DOMAIN m_events : m_events[j] = x => i <= j
    ELSE 0

\* C10: process_video_file invokes the external extraction only after the source
\* has opened and one frame has been read; if the source does not open or yields
\* no frame, the call fails without invoking the extraction and without writing
\* to the filesystem.
C10_ExtractionOnlyAfterSourceCheck ==
    m_op.name = "process_video_file" =>
        LET src == m_op.fs_before[m_op.video_path]
            usable == src.kind = "video" /\ src.finished /\ Len(src.frames) >= 1
        IN  /\ FirstIndex("ffmpeg") # 0 =>
                 /\ usable
                 /\ 0 < FirstIndex("open") /\ FirstIndex("open") < FirstIndex("read")
                 /\ FirstIndex("read") < FirstIndex("ffmpeg")
            /\ ~usable =>
                 /\ FirstIndex("ffmpeg") = 0
                 /\ m_ret = "False"
                 /\ files = m_op.fs_before

C10_Witness ==
    /\ m_op.name = "process_video_file"
    /\ m_ret = "False"
    /\ FirstIndex("ffmpeg") = 0
    /\ m_op.fs_before["in.mp4"].kind = "video"
    /\ Len(m_op.fs_before["in.mp4"].frames) = 0

\* Duration of a source in frames-per-second units: number of frames / fps
\* (VideoFileClip(path).duration, video_processor.py:312-323), as the bound on
\* t * fps for a time t inside the source.
PastEnd(src, t) == t * src.fps > Len(src.frames)

\* C11: process_video_file rejects a request with start >= end without invoking
\* the extraction, and for a request whose end lies past the end of the source it
\* still extracts, up to the end of the source.
C11_RejectsEmptyRangeClampsEnd ==
    (m_op.name = "process_video_file" /\ IsOpened(m_op.fs_before[m_op.video_path])
       /\ HasFrame(m_op.fs_before[m_op.video_path])) =>
        /\ m_op.start_time >= m_op.end_time =>
              (FirstIndex("ffmpeg") = 0 /\ m_ret = "False")
        /\ (/\ m_op.start_time < m_op.end_time
            /\ PastEnd(m_op.fs_before[m_op.video_path], m_op.end_time)) =>
              FirstIndex("ffmpeg") # 0

----------------------------------------------------------------------------
(* Properties of a run of process_video, checked under Spec.               *)

\* C12: when teaser generation has completed without raising (the flow reached
\* the output step), the value it returned, stored as teaser_path, is the path
\* of the teaser file that was written.
C12_TeaserPathIsWrittenFile ==
    Step = "output" =>
        /\ session_state["teaser_path"] =
              TeaserPath(session_state["tone"], session_state["duration"])
        /\ files[session_state["teaser_path"]].kind = "video"

\* Duration of a readable video in 1/TimeScale s (VideoFileClip(path).duration)
SourceDuration(src) == (Len(src.frames) * TimeScale) \div src.fps

\* C13: every highlight the analysis has produced satisfies
\* 0 <= start < end <= duration of the video being processed, and has a score
\* in [0, 1] (scores are kept in 1/100).
C13_HighlightsWithinSource ==
    (/\ pv_pc = "teaser"
     /\ session_state["video_path"].kind = "path"
     /\ IsOpened(files[session_state["video_path"].path])) =>
        \A i \in DOMAIN highlights :
           /\ 0 <= highlights[i].start
           /\ highlights[i].start < highlights[i].end
           /\ highlights[i].end <= SourceDuration(files[session_state["video_path"].path])
           /\ 0 <= highlights[i].score /\ highlights[i].score <= 100

\* The log of the run has the entry
Logged(stage, ev) == \E i \in DOMAIN pv_log : pv_log[i] = StageEv(stage, ev)

\* C14: once generate_teaser_clip has written the temporary logo file and has
\* returned or raised, temp_logo.png does not exist, whether the overlay step
\* succeeded or failed.
C14_TempLogoRemoved ==
    (Logged("teaser", "logo_written") /\ (Logged("teaser", "ok") \/ Logged("teaser", "fail"))) =>
        files["temp_logo.png"] = NoFile

C14_Witness ==
    /\ Logged("teaser", "logo_written")
    /\ Logged("teaser", "fail")
    /\ st_error = "Error generating teaser"
    /\ files["temp_logo.png"] = NoFile

\* Position of a stage in the pipeline
Rank(stage) ==
    CASE stage = "fetch" -> 1 [] stage = "analysis" -> 2
      [] stage = "teaser" -> 3 [] stage = "caption" -> 4

\* Stages of the run that have started and have not ended
InProgress ==
    {pv_log[i].stage : i \in {j \in DOMAIN pv_log :
        /\ pv_log[j].ev = "start"
        /\ ~\E k \in DOMAIN pv_log :
              k > j /\ pv_log[k].stage = pv_log[j].stage /\ pv_log[k].ev \in {"ok", "fail"}}}

\* C15: in a run of process_video the stages run one at a time in the order
\* fetch, analysis, teaser generation, caption: a stage starts only when the log
\* is empty (fetch or, for a local source, analysis) or right after the previous
\* stage has ended successfully; while a stage is in progress no other stage
\* does anything; and nothing follows a stage that failed.
C15_StagesStrictlySequential ==
    /\ Cardinality(InProgress) <= 1
    /\ \A i \in DOMAIN pv_log :
          /\ pv_log[i].ev = "start" =>
                IF i = 1
                THEN pv_log[i].stage \in {"fetch", "analysis"}
                ELSE /\ pv_log[i - 1].ev = "ok"
                     /\ Rank(pv_log[i].stage) = Rank(pv_log[i - 1].stage) + 1
          /\ pv_log[i].ev # "start" =>
                /\ i > 1
                /\ pv_log[i - 1].stage = pv_log[i].stage
                /\ pv_log[i - 1].ev \notin {"ok", "fail"}
          /\ pv_log[i].ev = "fail" => i = Len(pv_log)

C15_Witness ==
    /\ Step = "output"
    /\ Len(pv_log) >= 8
    /\ pv_log[1] = StageEv("fetch", "start")
    /\ pv_log[2] = StageEv("fetch", "ok")
    /\ pv_log[Len(pv_log)] = StageEv("caption", "ok")

\* Paths under <tempdir>/teaser_generator and under outputs/
UnderScratch(p) ==
    p \in {"scratch/title.webm", "scratch/title.mp4", "scratch/title.f1.webm",
           "scratch/title.f2.webm"}
UnderOutputs(p) ==
    p \in {"outputs/teaser.mp4", "outputs/teaser_professional_30s.mp4",
           "outputs/teaser_exciting_120s.mp4"}

\* Files a run leaves on the way to the teaser: what was downloaded, and the
\* copy of what was uploaded
IsIntermediate(p) ==
    \/ files[p].kind = "video" /\ files[p].origin \in {"download", "video_only", "upload"}
    \/ files[p].kind = "audio"
    \/ p = "tmp/upload.mp4" /\ files[p] # NoFile

IsFinal(p) == files[p].kind = "video" /\ files[p].origin = "teaser"

\* C16: every intermediate artifact is under the scratch directory and every
\* final artifact under the output directory, so that cleanup_temp_files removes
\* every intermediate artifact and no final one.
C16_ArtifactsInTheirDirectories ==
    \A p \in DOMAIN files :
       /\ IsIntermediate(p) => (UnderScratch(p) /\ cleanup_temp_files(files)[p] = NoFile)
       /\ IsFinal(p) => (UnderOutputs(p) /\ cleanup_temp_files(files)[p] = files[p])

----------------------------------------------------------------------------
(* Properties of what the remote fetcher returns, checked under SpecFetch. *)

\* A single playable file holding picture and sound
MergedPlayable(f) == f.kind = "video" /\ f.origin = "download" /\ f.finished

\* C17: the path download_youtube_video returns names a single merged playable
\* file, never a video-only or audio-only track and never a file that the
\* unmerged tracks were left beside.
C17_ReturnsMergedFile ==
    (dl_pc = "done" /\ dl_result.kind = "return") =>
        /\ MergedPlayable(files[dl_result.value])
        /\ \A p \in DOMAIN files :
              files[p].kind \in {"video", "audio"} =>
                 files[p].origin \notin {"video_only", "audio_only"}

----------------------------------------------------------------------------
(* Further properties of the extractor and the compositor, under SpecMedia. *)

\* C18: process_video_file always returns (True or False, no exception reaches
\* the caller), and it returns True exactly when the source opened, a frame was
\* read, and the external extraction was invoked and wrote its whole output;
\* in every other case it returns False.
C18_ReturnsTrueIffExtracted ==
    m_op.name = "process_video_file" =>
        LET src == m_op.fs_before[m_op.video_path]
            checked == src.kind = "video" /\ src.finished /\ Len(src.frames) >= 1
            extracted == /\ FirstIndex("ffmpeg") # 0
                         /\ files[m_op.output_path].kind = "video"
                         /\ files[m_op.output_path].origin = "ffmpeg"
                         /\ files[m_op.output_path].finished
        IN  /\ m_ret \in {"True", "False"}
            /\ m_ret = "True" <=> (checked /\ extracted /\ ~Failed)
            /\ m_ret = "False" <=> Failed

C18_Witness ==
    /\ m_op.name = "process_video_file"
    /\ m_ret = "False"
    /\ m_events = <<"open", "read", "ffmpeg", "except">>

\* C19: when add_subtitles_to_video has accepted its input and written the
\* output, the output has one frame for every frame of the source, in order, and
\* the k-th source frame (k from 0) carries an overlay text exactly when an
\* entry's window holds its own timestamp k / fps.
C19_EverySourceFrameAtItsTimestamp ==
    (/\ m_op.name = "add_subtitles_to_video"
     /\ m_op.output_path # m_op.video_path
     /\ ~Failed
     /\ m_ret = m_op.output_path
     /\ files[m_op.output_path].kind = "video"
     /\ files[m_op.output_path].origin = "writer") =>
        LET src == m_op.fs_before[m_op.video_path]
            out == files[m_op.output_path]
        IN  /\ Len(out.frames) = Len(src.frames)
            /\ \A c \in DOMAIN out.frames :
                  /\ out.frames[c].src = c
                  /\ out.frames[c].drawn # <<>> <=> ActiveAt(out.frames[c].src - 1, out.fps) # {}

----------------------------------------------------------------------------
(* Property of the source handed to the stages, checked under Spec.        *)

\* C20: a URL that validate_youtube_url has accepted and handle_video_input has
\* stored is downloaded before anything else is done with it: when the analysis
\* or the teaser generation is about to run, video_path is a local file path and
\* the run has fetched it.
C20_AcceptedUrlIsFetchedFirst ==
    pv_pc \in {"analyze", "teaser"} =>
        /\ session_state["video_path"].kind = "path"
        /\ session_state["video_path"].path \in {"scratch/title.webm", "scratch/title.mp4"}
              => Logged("fetch", "ok")

----------------------------------------------------------------------------
(* Termination of the remote fetcher, checked under SpecFetchLive.         *)

\* The alternate strategy is entered only after a primary attempt that failed
FallbackOnlyAfterPrimaryFailure ==
    \A i \in DOMAIN events :
       events[i].ev = "fallback_call" =>
          /\ i > 1
          /\ events[i - 1].loop = "primary"
          /\ \/ events[i - 1].ev = "sleep"
             \/ events[i - 1].ev = "attempt" /\ events[i - 1].outcome # "ok"
          /\ \A j \in 1..(i - 1) : events[j].outcome # "ok"

\* C21: every call of download_youtube_video ends, whatever the attempts do: it
\* makes at most 10 primary attempts, calls the alternate strategy at most once
\* and only after the primary strategy failed, the alternate strategy makes at
\* most 5 attempts, and the call ends by returning a path or raising.
C21_DownloadTerminates ==
    /\ [](/\ Count("primary", "attempt") <= 10
          /\ Count("fallback", "fallback_call") <= 1
          /\ Count("fallback", "attempt") <= 5
          /\ FallbackOnlyAfterPrimaryFailure
          /\ dl_pc = "done" => dl_result.kind \in {"return", "raise"})
    /\ (dl_pc \in {"primary", "fallback"}) ~> (dl_pc = "done")

C21_Witness ==
    /\ dl_pc = "done"
    /\ dl_result.kind = "return"
    /\ Count("primary", "attempt") = 10
    /\ Count("fallback", "attempt") = 5

----------------------------------------------------------------------------
(* Frame of "Start Over", checked under Spec.                              *)

\* Keys whose values a run sets: the source, the preferences, the branding, the
\* teaser and the caption
RunKeys ==
    {"video_path", "duration", "tone", "add_subtitles", "add_music", "logo",
     "tagline", "teaser_path", "caption"}

\* C22: a step from the output step to the welcome step (Start Over) has run
\* cleanup_temp_files (nothing is left under the scratch directory, nor
\* temp_logo.png), leaves no session key but the ones init_session_state sets,
\* each at its default, with current_step "welcome": the source, logo, tagline,
\* teaser and caption of the previous run are gone.
C22_StartOverResetsSession ==
    [][(Step = "output" /\ session_state'["current_step"] = "welcome") =>
          /\ \A p \in DOMAIN files' :
                (UnderScratch(p) \/ p = "temp_logo.png") => files'[p] = NoFile
          /\ \A p \in DOMAIN files :
                ~(UnderScratch(p) \/ p = "temp_logo.png") => files'[p] = files[p]
          /\ scratchDir' = FALSE
          /\ "logo" \notin DOMAIN session_state'
          /\ "tagline" \notin DOMAIN session_state'
          /\ \A k \in DOMAIN session_state' :
                /\ k \in RunKeys \cup {"current_step"}
                /\ k \in RunKeys => session_state'[k] = SessionDefaults[k]
          /\ session_state'["video_path"] = NoVideo
          /\ session_state'["teaser_path"] = None
          /\ session_state'["caption"] = None]_vars

C22_Witness ==
    /\ Step = "welcome"
    /\ Logged("teaser", "logo_written")
    /\ Logged("fetch", "ok")
    /\ Logged("caption", "ok")
    /\ "logo" \notin DOMAIN session_state
    /\ session_state["video_path"] = NoVideo

====
